---- MODULE Spec2Model ----
(***************************************************************************)
(* Benchmark problem generators (scripts/generate_problems.py) and         *)
(* solution validators (scripts/validate_solution.py).                     *)
(*                                                                         *)
(* Every call is run by a caller p in small steps: one step per block of   *)
(* straight-line code between two uses of the call's random stream.  Real  *)
(* numbers are carried exactly as integers in a fixed unit:                *)
(*   - normal deviates are even integers, so (J + J.T) / 2 is exact;       *)
(*   - ratios given by the caller (alpha, edge_density, density) are in    *)
(*     hundredths;                                                         *)
(*   - adjacency weights given to validate_maxcut are in halves;           *)
(*   - an Ising energy is carried doubled (the factor 0.5 is then exact).  *)
(***************************************************************************)
EXTENDS Integers, Sequences, FiniteSets, TLC

VARIABLES call, pc, loc, rng, result

vars == <<call, pc, loc, rng, result>>

\* ------------------------------------------------------------------ bounds
\* Largest problem size (spins, nodes, QUBO variables) of an instance.
MaxN == 2
\* Baseline candidates drawn by validate_ising / validate_qubo (the source
\* draws 1000; the loop is the same for any count).
NumSamples == 3

Procs == {1, 2}

\* ----------------------------------------------------------------- helpers
Abs(x) == IF x < 0 THEN -x ELSE x

\* Python int(num / den) for den > 0: truncation toward zero.
Trunc(num, den) == IF num >= 0 THEN num \div den ELSE -((-num) \div den)

\* Python round(): nearest, ties to even; num / den with den > 0.
RoundHalfEven(num, den) ==
    LET q == num \div den
        r == num % den
    IN  IF 2 * r < den THEN q
        ELSE IF 2 * r > den THEN q + 1
        ELSE IF q % 2 = 0 THEN q ELSE q + 1

RECURSIVE SumSeq(_)
SumSeq(s) == IF s = <<>> THEN 0 ELSE Head(s) + SumSeq(Tail(s))

RECURSIVE MinSeq(_)
MinSeq(s) ==
    IF Len(s) = 1 THEN s[1]
    ELSE LET m == MinSeq(Tail(s)) IN IF s[1] < m THEN s[1] ELSE m

Dot(u, v) == SumSeq([i \in 1..Len(u) |-> u[i] * v[i]])

\* v @ M for a vector v and a square matrix M (v_i summed down column j).
VecMat(v, M) == [j \in 1..Len(M) |-> SumSeq([i \in 1..Len(v) |-> v[i] * M[i][j]])]

None == [status |-> "none"]
Raised(kind, draws) == [status |-> "raised", error |-> kind, draws |-> draws]
Returned(value, draws) == [status |-> "returned", value |-> value, draws |-> draws]

\* A call's control state: position, locals, the state of the stream it
\* draws from, and its outcome once it has one.
Cfg(p, l, s, r) == [pc |-> p, loc |-> l, s |-> s, res |-> r]
Fail(kind, draws, s) == Cfg("done", [draws |-> draws], s, Raised(kind, draws))
Ret(value, draws, s) == Cfg("done", [draws |-> draws], s, Returned(value, draws))

\* ------------------------------------------------ the seeded random stream
\* np.random.default_rng(seed): a stream whose whole future is fixed by the
\* seed.  The bit generator is abstracted to a full-period congruential
\* generator on 6 bits; outputs are read from the high bits of the state.
default_rng(seed) == (13 * seed + 5) % 64
Advance(s) == (37 * s + 11) % 64

RECURSIVE AdvanceBy(_, _)
AdvanceBy(s, k) == IF k = 0 THEN s ELSE AdvanceBy(Advance(s), k - 1)

\* The k values a stream in state s hands out next (as generator states).
Draws(s, k) == [i \in 1..k |-> AdvanceBy(s, i)]

StdNormal(t) == 2 * ((t \div 4) % 5) - 4      \* a deviate, in {-4,-2,0,2,4}
Uniform16(t) == t \div 4                      \* u in [0,1) as u * 16
CoinBit(t) == t \div 32                       \* 0 or 1

\* rng.normal(0, scale, size): size values, or ValueError for scale < 0 or a
\* negative dimension, raised before anything is drawn.
normal_raises(scale, dim) == scale < 0 \/ dim < 0
normal(s, scale, k) == [i \in 1..k |-> scale * StdNormal(Draws(s, k)[i])]

\* rng.choice([lo, hi], size=k)
choice2(s, lo, hi, k) ==
    [i \in 1..k |-> IF CoinBit(Draws(s, k)[i]) = 0 THEN lo ELSE hi]

RemoveAt(sq, i) == [k \in 1..(Len(sq) - 1) |-> IF k < i THEN sq[k] ELSE sq[k + 1]]

RECURSIVE PickDistinct(_, _, _)
PickDistinct(pool, ts, k) ==
    IF k > Len(ts) THEN <<>>
    ELSE LET i == (Uniform16(ts[k]) % Len(pool)) + 1
         IN  <<pool[i]>> \o PickDistinct(RemoveAt(pool, i), ts, k + 1)

\* rng.choice(a, size=k, replace=False): k distinct members of 0..a-1;
\* ValueError when the population is smaller than the sample.
choice_raises(a, k) == a < k
choice_distinct(s, a, k) == PickDistinct([i \in 1..a |-> i - 1], Draws(s, k), 1)

\* The stream object a call draws from: its own local `rng`.
StreamShared(p) == 1
StreamOf(p) == p


\* ------------------------------------------------------ generate_random_ising
SumAbsSeq(s) == SumSeq([i \in 1..Len(s) |-> Abs(s[i])])
SumAbsMat(M) == SumSeq([i \in 1..Len(M) |-> SumAbsSeq(M[i])])

\* Lines 26-43: the call constructs its stream; nothing is checked.
gi_enter(c, s) == Cfg("gi_J", [draws |-> 0], default_rng(c.seed), None)

\* Lines 45 and 47 without line 46: the drawn matrix with a cleared diagonal.
gi_drawJ_as_drawn(c, l, s) ==
    IF normal_raises(c.coupling_std, c.n) THEN Fail("ValueError", l.draws, s)
    ELSE LET n == c.n
             A == normal(s, c.coupling_std, n * n)
             J == [i \in 1..n |-> [j \in 1..n |->
                     IF i = j THEN 0 ELSE A[(i - 1) * n + j]]]
         IN  Cfg("gi_h", [draws |-> l.draws + n * n, J |-> J],
                 AdvanceBy(s, n * n), None)

\* Lines 45-47: draw the n x n matrix, symmetrize, clear the diagonal.
gi_drawJ(c, l, s) ==
    IF normal_raises(c.coupling_std, c.n) THEN Fail("ValueError", l.draws, s)
    ELSE LET n == c.n
             A == normal(s, c.coupling_std, n * n)
             J == [i \in 1..n |-> [j \in 1..n |->
                     IF i = j THEN 0
                     ELSE (A[(i - 1) * n + j] + A[(j - 1) * n + i]) \div 2]]
         IN  Cfg("gi_h", [draws |-> l.draws + n * n, J |-> J],
                 AdvanceBy(s, n * n), None)

\* Lines 49-70: draw the fields, compute the bound (carried doubled), return.
gi_drawH(c, l, s) ==
    IF normal_raises(c.field_std, c.n) THEN Fail("ValueError", l.draws, s)
    ELSE LET h == normal(s, c.field_std, c.n)
         IN  Ret([problem_type |-> "ising", num_spins |-> c.n,
                  coupling_std |-> c.coupling_std, field_std |-> c.field_std,
                  seed |-> c.seed, J |-> l.J, h |-> h,
                  metadata |-> [
                     num_couplings |-> Trunc(c.n * (c.n - 1), 2),
                     max_possible_energy_bound |->
                         -SumAbsMat(l.J) - 2 * SumAbsSeq(h)]],
                 l.draws + c.n, AdvanceBy(s, c.n))

\* ------------------------------------------------------- generate_random_3sat
\* Lines 118-119 (and 147-148 of the validator): a = num / den, den > 0.
Regime(num, den) ==
    IF Abs(100 * num - 427 * den) < 10 * den THEN "hard"
    ELSE IF 100 * num < 427 * den THEN "easy-SAT" ELSE "easy-UNSAT"

\* Lines 96-99.  int(num_vars * alpha) is taken of the exact product.
gs_enter(c, s) ==
    Cfg("gs_loop",
        [draws |-> 0, num_clauses |-> Trunc(c.num_vars * c.alpha, 100),
         clauses |-> <<>>, vars_chosen |-> <<>>],
        default_rng(c.seed), None)

\* Line 102, taken while range(num_clauses) has an iteration left.
gs_choice(c, l, s) ==
    IF choice_raises(c.num_vars, 3) THEN Fail("ValueError", l.draws, s)
    ELSE LET ch == choice_distinct(s, c.num_vars, 3)
         IN  Cfg("gs_signs",
                 [l EXCEPT !.draws = @ + 3,
                           !.vars_chosen = [k \in 1..3 |-> ch[k] + 1]],
                 AdvanceBy(s, 3), None)

\* Lines 104-106.
gs_signs(c, l, s) ==
    LET signs == choice2(s, -1, 1, 3)
        clause == [k \in 1..3 |-> l.vars_chosen[k] * signs[k]]
    IN  Cfg("gs_loop",
            [l EXCEPT !.draws = @ + 3, !.clauses = Append(@, clause),
                      !.vars_chosen = <<>>],
            AdvanceBy(s, 3), None)

\* Lines 108-121.
gs_return(c, l, s) ==
    Ret([problem_type |-> "3-sat", num_vars |-> c.num_vars,
         num_clauses |-> l.num_clauses, alpha |-> c.alpha, seed |-> c.seed,
         clauses |-> l.clauses,
         metadata |-> [clause_length |-> 3, phase_transition_alpha |-> 427,
                       regime |-> Regime(c.alpha, 100)]],
        l.draws, s)

gs_more(l) == Len(l.clauses) < l.num_clauses

\* ----------------------------------------------------- generate_random_maxcut
RECURSIVE PairsFrom(_, _, _)
PairsFrom(i, j, n) ==
    IF i > n THEN <<>>
    ELSE IF j > n THEN PairsFrom(i + 1, i + 2, n)
    ELSE <<(<<i, j>>)>> \o PairsFrom(i, j + 1, n)

\* The pairs i < j in the order of the nested loops (lines 144-145, 182-183).
Pairs(n) == PairsFrom(1, 2, n)

SumMat(M) == SumSeq([i \in 1..Len(M) |-> SumSeq(M[i])])

\* Lines 140-143: np.zeros((n, n)) raises ValueError for a negative n.
gm_enter(c, s) ==
    IF c.n < 0 THEN Fail("ValueError", 0, default_rng(c.seed))
    ELSE Cfg("gm_loop",
             [draws |-> 0, k |-> 1,
              adj |-> [i \in 1..c.n |-> [j \in 1..c.n |-> 0]]],
             default_rng(c.seed), None)

gm_more(c, l) == l.k <= Len(Pairs(c.n))

\* Lines 146-148 for the k-th pair.
gm_edge(c, l, s) ==
    LET t == Advance(s)
        i == Pairs(c.n)[l.k][1]
        j == Pairs(c.n)[l.k][2]
        hit == Uniform16(t) * 100 < c.edge_density * 16
    IN  Cfg("gm_loop",
            [l EXCEPT !.draws = @ + 1, !.k = @ + 1,
                      !.adj = IF hit THEN [@ EXCEPT ![i][j] = 1, ![j][i] = 1]
                              ELSE @],
            t, None)

\* Lines 150-166.
gm_return(c, l, s) ==
    LET num_edges == SumMat(l.adj) \div 2
    IN  Ret([problem_type |-> "max-cut", num_nodes |-> c.n,
             num_edges |-> num_edges, edge_density |-> c.edge_density,
             seed |-> c.seed, adjacency |-> l.adj,
             metadata |-> [
                expected_edges |-> Trunc(c.n * (c.n - 1) * c.edge_density, 200),
                actual_edges |-> num_edges,
                avg_degree |-> IF c.n > 0 THEN <<2 * num_edges, c.n>>
                               ELSE <<0, 1>>]],
            l.draws, s)

\* ------------------------------------------------------- generate_random_qubo
\* The matrix with its lower triangle left as it is.
keep_lower(Q) == Q

\* np.triu
triu(Q) == [i \in 1..Len(Q) |-> [j \in 1..Len(Q) |-> IF i > j THEN 0 ELSE Q[i][j]]]

CountNonzero(M) ==
    SumSeq([i \in 1..Len(M) |->
              SumSeq([j \in 1..Len(M) |-> IF M[i][j] # 0 THEN 1 ELSE 0])])

\* Line 184.
gq_enter(c, s) == Cfg("gq_Q", [draws |-> 0], default_rng(c.seed), None)

\* Line 186.
gq_drawQ(c, l, s) ==
    IF normal_raises(1, c.n) THEN Fail("ValueError", l.draws, s)
    ELSE LET n == c.n
             A == normal(s, 1, n * n)
         IN  Cfg("gq_tail",
                 [draws |-> l.draws + n * n,
                  Q |-> [i \in 1..n |-> [j \in 1..n |-> A[(i - 1) * n + j]]]],
                 AdvanceBy(s, n * n), None)

gq_result(c, Q, draws, s) ==
    Ret([problem_type |-> "qubo", num_vars |-> c.n, density |-> c.density,
         seed |-> c.seed, Q |-> Q,
         metadata |-> [num_nonzero |-> CountNonzero(Q)]],
        draws, s)

gq_sparse(c) == c.density < 100

\* Lines 188-207 when density < 1.0: mask, then triangularize.
gq_mask(c, l, s) ==
    LET n == c.n
        ts == Draws(s, n * n)
        masked == [i \in 1..n |-> [j \in 1..n |->
                     IF Uniform16(ts[(i - 1) * n + j]) * 100 < c.density * 16
                     THEN l.Q[i][j] ELSE 0]]
    IN  gq_result(c, triu(masked), l.draws + n * n, AdvanceBy(s, n * n))

\* Lines 188, 193-207 when density >= 1.0.
gq_return(c, l, s) == gq_result(c, triu(l.Q), l.draws, s)


\* ------------------------------------------------- validators: domain checks
ValueError(i, v) == [kind |-> "value", at |-> i, got |-> v]
LengthError(len, want) == [kind |-> "length", at |-> len, got |-> want]

RECURSIVE ElementErrors(_, _, _)
ElementErrors(xs, dom, i) ==
    IF i > Len(xs) THEN <<>>
    ELSE (IF xs[i] \notin dom THEN <<ValueError(i - 1, xs[i])>> ELSE <<>>)
         \o ElementErrors(xs, dom, i + 1)

first_value_error(xs, dom) ==
    IF ElementErrors(xs, dom, 1) = <<>> THEN <<>>
    ELSE <<Head(ElementErrors(xs, dom, 1))>>

\* for i, x in enumerate(xs): if x not in dom: errors.append(...)
\* (lines 49-51, 111-113, 173-175, 226-228)
value_errors(xs, dom) == ElementErrors(xs, dom, 1)

\* if len(xs) != want: errors.append(...)  (lines 53-54, 108-109, 170-171,
\* 223-224)
length_errors(xs, want) ==
    IF Len(xs) # want THEN <<LengthError(Len(xs), want)>> ELSE <<>>

Invalid(errors, s) == Ret([valid |-> FALSE, errors |-> errors], 0, s)

\* ------------------------------------------------------------- validate_ising
ising_errors(c) == value_errors(c.spins, {-1, 1}) \o length_errors(c.spins, Len(c.J))

\* numpy refuses a product of mismatched shapes (ValueError).
matmul_raises(v, M) == Len(v) # Len(M)

energy_upper_only(J, h, sigma) ==
    -2 * SumSeq([k \in 1..Len(Pairs(Len(J))) |->
                   sigma[Pairs(Len(J))[k][1]]
                   * J[Pairs(Len(J))[k][1]][Pairs(Len(J))[k][2]]
                   * sigma[Pairs(Len(J))[k][2]]])
    - 2 * Dot(h, sigma)

\* -0.5 * sigma @ J @ sigma - np.dot(h, sigma)  (lines 60 and 68), doubled.
ising_energy(J, h, sigma) ==
    Dot(VecMat([i \in 1..Len(sigma) |-> -sigma[i]], J), sigma) - 2 * Dot(h, sigma)

proceeds_always(errors) == FALSE
\* if errors: return {"valid": False, "errors": errors}
\* (lines 56-57, 115-116, 177-178, 230-231)
has_errors(errors) == errors # <<>>

\* Lines 41-64.
vi_enter(c, s) ==
    IF has_errors(ising_errors(c)) THEN Invalid(ising_errors(c), s)
    ELSE IF matmul_raises(c.spins, c.J) \/ Len(c.h) # Len(c.spins)
         THEN Fail("ValueError", 0, s)
    ELSE Cfg("vi_loop",
             [draws |-> 0, energy |-> ising_energy(c.J, c.h, c.spins),
              random_energies |-> <<>>],
             default_rng(0), None)

vi_more(l) == Len(l.random_energies) < NumSamples

\* Lines 67-69: one baseline candidate.
vi_sample(c, l, s) ==
    LET n == Len(c.spins)
        rand_spins == choice2(s, -1, 1, n)
    IN  Cfg("vi_loop",
            [l EXCEPT !.draws = @ + n,
                      !.random_energies =
                          Append(@, ising_energy(c.J, c.h, rand_spins))],
            AdvanceBy(s, n), None)

\* (baseline - energy) / abs(baseline) * 100 formatted to one decimal; the
\* baseline is num / den with den > 0.  In tenths of a percent.
improvement(num, den, energy) ==
    IF num # 0 THEN RoundHalfEven((num - den * energy) * 1000, Abs(num)) ELSE 0

\* Lines 71-89.  mean = sum / N is carried as <<sum, N>>; the standard
\* deviation as N^2 times the variance (sigma_below_mean, its quotient, is
\* left out: it is a function of these fields).
vi_return(c, l, s) ==
    LET es == l.random_energies
        N == Len(es)
        sum == SumSeq(es)
        var == N * SumSeq([i \in 1..N |-> es[i] * es[i]]) - sum * sum
        best == MinSeq(es)
    IN  Ret([valid |-> TRUE, energy |-> l.energy,
             random_baseline |-> [mean_energy |-> <<sum, N>>,
                                  std_energy |-> var,
                                  best_of_1000 |-> best],
             improvement_over_random_mean |-> improvement(sum, N, l.energy),
             improvement_over_random_best |-> improvement(best, 1, l.energy)],
            l.draws, s)

\* --------------------------------------------------------------- validate_sat
sat_errors(c) ==
    length_errors(c.assignment, c.num_vars) \o value_errors(c.assignment, {0, 1})

literal_ignores_sign(lit, assignment) == assignment[Abs(lit)] = 1

\* Lines 124-130: var = abs(lit) - 1; a positive literal holds when the
\* variable is 1, a negative one when it is 0.
literal_holds(lit, assignment) ==
    \/ lit > 0 /\ assignment[(Abs(lit) - 1) + 1] = 1
    \/ lit < 0 /\ assignment[(Abs(lit) - 1) + 1] = 0

\* Lines 122-130: "sat" at the first literal that holds (break), "unsat" when
\* none does, "raise" when assignment[var] is read past the end of the
\* assignment (IndexError).
RECURSIVE clause_loop(_, _, _)
clause_loop(clause, assignment, k) ==
    IF k > Len(clause) THEN "unsat"
    ELSE IF clause[k] = 0 THEN clause_loop(clause, assignment, k + 1)
    ELSE IF Abs(clause[k]) > Len(assignment) THEN "raise"
    ELSE IF literal_holds(clause[k], assignment) THEN "sat"
    ELSE clause_loop(clause, assignment, k + 1)

RECURSIVE UnsatIndices(_, _, _)
UnsatIndices(clauses, assignment, idx) ==
    IF idx > Len(clauses) THEN <<>>
    ELSE (IF clause_loop(clauses[idx], assignment, 1) = "unsat"
          THEN <<idx - 1>> ELSE <<>>)
         \o UnsatIndices(clauses, assignment, idx + 1)

Prefix(sq, k) == [i \in 1..(IF Len(sq) < k THEN Len(sq) ELSE k) |-> sq[i]]

\* Lines 106-150.  first_unsatisfied is <<>> where the source gives None.
validate_sat_body(c, s) ==
    IF has_errors(sat_errors(c)) THEN Invalid(sat_errors(c), s)
    ELSE IF \E idx \in 1..Len(c.clauses) :
               clause_loop(c.clauses[idx], c.assignment, 1) = "raise"
         THEN Fail("IndexError", 0, s)
    ELSE LET total == Len(c.clauses)
             unsat == UnsatIndices(c.clauses, c.assignment, 1)
             satisfied == total - Len(unsat)
         IN  Ret([valid |-> TRUE,
                  clauses_satisfied |-> satisfied,
                  clauses_total |-> total,
                  satisfaction_rate |->
                      IF total > 0 THEN RoundHalfEven(10000 * satisfied, total)
                      ELSE 10000,
                  satisfies_all |-> (satisfied = total),
                  alpha |-> IF c.num_vars > 0
                            THEN RoundHalfEven(1000 * total, c.num_vars) ELSE 0,
                  phase_transition_regime |->
                      IF c.num_vars > 0 THEN Regime(total, c.num_vars)
                      ELSE Regime(0, 1),
                  first_unsatisfied |-> Prefix(Prefix(unsat, 10), 5)],
                 0, s)

\* ------------------------------------------------------------ validate_maxcut
maxcut_errors(c) ==
    length_errors(c.partition, Len(c.adjacency))
    \o value_errors(c.partition, {-1, 1})

\* int(adj[i, j]) of a weight given in halves.
py_int(w) == Trunc(w, 2)

\* Lines 180-187 restricted to one pair: its share of total_edges, cut_value.
EdgeCount(adj, pr) == IF adj[pr[1]][pr[2]] # 0 THEN 1 ELSE 0
EdgeCut(adj, partition, pr) ==
    IF adj[pr[1]][pr[2]] # 0 /\ partition[pr[1]] # partition[pr[2]]
    THEN py_int(adj[pr[1]][pr[2]]) ELSE 0

\* Lines 166-202.  cut_ratio in hundredths of a percent, the bound in tenths.
validate_maxcut_body(c, s) ==
    LET adj == c.adjacency
        n == Len(adj)
        prs == Pairs(n)
    IN  IF has_errors(maxcut_errors(c)) THEN Invalid(maxcut_errors(c), s)
        ELSE IF \E k \in 1..Len(prs) :
                   adj[prs[k][1]][prs[k][2]] # 0 /\ prs[k][2] > Len(c.partition)
             THEN Fail("IndexError", 0, s)
        ELSE LET total_edges == SumSeq([k \in 1..Len(prs) |-> EdgeCount(adj, prs[k])])
                 cut_value ==
                     SumSeq([k \in 1..Len(prs) |-> EdgeCut(adj, c.partition, prs[k])])
                 set_a == SumSeq([i \in 1..Len(c.partition) |->
                                    IF c.partition[i] = 1 THEN 1 ELSE 0])
             IN  Ret([valid |-> TRUE, cut_value |-> cut_value,
                      total_edges |-> total_edges,
                      cut_ratio |->
                          IF total_edges > 0
                          THEN RoundHalfEven(10000 * cut_value, total_edges) ELSE 0,
                      partition_balance |-> <<set_a, n - set_a>>,
                      goemans_williamson_bound |->
                          RoundHalfEven(878 * total_edges, 100)],
                     0, s)

\* -------------------------------------------------------------- validate_qubo
qubo_errors(c) ==
    length_errors(c.solution, Len(c.Q)) \o value_errors(c.solution, {0, 1})

objective_upper_only(Q, x) == Dot(VecMat(x, triu(Q)), x)

\* x @ Q @ x  (lines 233 and 240)
qubo_objective(Q, x) == Dot(VecMat(x, Q), x)

\* Lines 218-236.
vq_enter(c, s) ==
    IF has_errors(qubo_errors(c)) THEN Invalid(qubo_errors(c), s)
    ELSE IF matmul_raises(c.solution, c.Q) THEN Fail("ValueError", 0, s)
    ELSE Cfg("vq_loop",
             [draws |-> 0, objective |-> qubo_objective(c.Q, c.solution),
              random_objectives |-> <<>>],
             default_rng(0), None)

vq_more(l) == Len(l.random_objectives) < NumSamples

\* Lines 239-240: one baseline candidate.
vq_sample(c, l, s) ==
    LET n == Len(c.solution)
        rand_x == choice2(s, 0, 1, n)
    IN  Cfg("vq_loop",
            [l EXCEPT !.draws = @ + n,
                      !.random_objectives = Append(@, qubo_objective(c.Q, rand_x))],
            AdvanceBy(s, n), None)

\* Lines 242-250.  The mean is carried as <<sum, N>>.
vq_return(c, l, s) ==
    Ret([valid |-> TRUE, objective |-> l.objective,
         num_ones |-> SumSeq(c.solution),
         random_baseline |->
             [mean_objective |-> <<SumSeq(l.random_objectives),
                                   Len(l.random_objectives)>>,
              best_of_1000 |-> MinSeq(l.random_objectives)]],
        l.draws, s)


\* --------------------------------------------------------------------- inputs
Seeds == {0, 1, 42}
Sizes == -1..MaxN
Stds == {-1, 0, 1}
Ratios == {-50, 0, 25, 50, 100, 150}
NumVars == {-1, 0, 2, 3, 4}
Alphas == {-50, 0, 40, 100, 420, 427}

Positions(n) == (1..n) \X (1..n)

\* The n x n matrices with at most two entries off zero, taken from vals.
Matrices(n, vals) ==
    {[i \in 1..n |-> [j \in 1..n |->
        IF <<i, j>> = p1 THEN v1 ELSE IF <<i, j>> = p2 THEN v2 ELSE 0]] :
     p1 \in Positions(n), p2 \in Positions(n),
     v1 \in vals \cup {0}, v2 \in vals \cup {0}}

\* Weighted graphs on n nodes: a weight (in halves) per pair i < j, stored
\* in both triangles or in the upper one only.
Adjacencies(n) ==
    {[i \in 1..n |-> [j \in 1..n |->
        IF i < j THEN w[<<i, j>>]
        ELSE IF i > j /\ both THEN w[<<j, i>>] ELSE 0]] :
     w \in [{pr \in Positions(n) : pr[1] < pr[2]} -> {0, 1, 2, 3}],
     both \in BOOLEAN}

Fields(n) == {[i \in 1..n |-> 0], [i \in 1..n |-> 1],
              [i \in 1..n |-> IF i % 2 = 1 THEN -1 ELSE 1]}

\* Candidates for a problem of size n: every sequence of n elements that are
\* ok, alt (both in the domain) or bad (outside it), and the sequences of ok
\* and bad one element short and one too many.
Candidates(n, ok, alt, bad) ==
    [1..n -> {ok, alt, bad}]
    \cup UNION {[1..len -> {ok, bad}] : len \in {m \in {n - 1, n + 1} : m >= 0}}

\* Clauses over variables 1..nv: any sign pattern on any set of variables.
ClausesOver(nv) ==
    {[k \in 1..Len(vs) |-> vs[k] * sg[k]] :
     vs \in {<<>>, <<1>>, <<2>>, <<3>>, <<1, 2>>, <<1, 3>>, <<2, 3>>,
             <<1, 2, 3>>},
     sg \in [1..3 -> {-1, 1}]}
    \cap UNION {[1..len -> {v \in -nv..nv : v # 0}] : len \in 0..3}

ClauseLists(nv) == UNION {[1..len -> ClausesOver(nv)] : len \in 0..2}

\* The calls offered to a caller.  wide: the input sets of a single caller
\* making one call after another; otherwise the few calls that two callers
\* running at once choose from.
IsingGenCalls(wide) ==
    {[op |-> "generate_random_ising", n |-> n, coupling_std |-> cs,
      field_std |-> fs, seed |-> sd] :
     n \in IF wide THEN Sizes ELSE {2}, cs \in IF wide THEN Stds ELSE {1},
     fs \in IF wide THEN Stds ELSE {1}, sd \in IF wide THEN Seeds ELSE {0, 42}}

SatGenCalls(wide) ==
    {[op |-> "generate_random_3sat", num_vars |-> nv, alpha |-> a, seed |-> sd] :
     nv \in IF wide THEN NumVars ELSE {3}, a \in IF wide THEN Alphas ELSE {40},
     sd \in IF wide THEN Seeds ELSE {0, 42}}

MaxcutGenCalls(wide) ==
    {[op |-> "generate_random_maxcut", n |-> n, edge_density |-> d, seed |-> sd] :
     n \in IF wide THEN -1..(MaxN + 1) ELSE {2},
     d \in IF wide THEN Ratios ELSE {50}, sd \in IF wide THEN Seeds ELSE {0, 42}}

QuboGenCalls(wide) ==
    {[op |-> "generate_random_qubo", n |-> n, density |-> d, seed |-> sd] :
     n \in IF wide THEN Sizes ELSE {2}, d \in IF wide THEN Ratios ELSE {50, 100},
     sd \in IF wide THEN Seeds ELSE {42}}

\* Instance sizes offered to the validators.
InstanceSizes(wide) == IF wide THEN 1..MaxN ELSE {2}
GraphSizes(wide) == IF wide THEN 1..3 ELSE {2}
FormulaSizes(wide) == IF wide THEN 1..3 ELSE {3}

IsingCalls(wide, n) ==
    IF wide
    THEN {[op |-> "validate_ising", J |-> J, h |-> h, spins |-> sp] :
          J \in Matrices(n, {-1, 1}), h \in Fields(n),
          sp \in Candidates(n, 1, -1, 0)}
    ELSE {[op |-> "validate_ising", J |-> <<(<<0, 1>>), (<<1, 0>>)>>,
           h |-> <<0, 1>>, spins |-> sp] :
          sp \in {<<1, -1>>, <<1, 1>>, <<1, 0>>}}

SatCalls(wide, nv) ==
    IF wide
    THEN {[op |-> "validate_sat", clauses |-> cl, num_vars |-> nv, assignment |-> a] :
          cl \in ClauseLists(nv), a \in Candidates(nv, 0, 1, 2)}
    ELSE {[op |-> "validate_sat", clauses |-> <<(<<1, 2, -3>>)>>, num_vars |-> nv,
           assignment |-> a] : a \in {<<0, 0, 0>>, <<0, 0, 1>>}}

MaxcutCalls(wide, n) ==
    IF wide
    THEN {[op |-> "validate_maxcut", adjacency |-> adj, partition |-> pt] :
          adj \in Adjacencies(n), pt \in Candidates(n, 1, -1, 0)}
    ELSE {[op |-> "validate_maxcut", adjacency |-> <<(<<0, 2>>), (<<2, 0>>)>>,
           partition |-> pt] : pt \in {<<1, -1>>, <<1, 1>>}}

QuboCalls(wide, n) ==
    IF wide
    THEN {[op |-> "validate_qubo", Q |-> Q, solution |-> x] :
          Q \in Matrices(n, {-1, 1, 2}), x \in Candidates(n, 1, 0, 2)}
    ELSE {[op |-> "validate_qubo", Q |-> <<(<<1, 2>>), (<<0, 3>>)>>,
           solution |-> x] : x \in {<<1, 1>>, <<0, 1>>, <<2, 1>>}}

\* ---------------------------------------------------------------- the system
NoCall == [op |-> "none"]

Init ==
    /\ call = [p \in Procs |-> NoCall]
    /\ pc = [p \in Procs |-> "idle"]
    /\ loc = [p \in Procs |-> [draws |-> 0]]
    /\ rng = [p \in Procs |-> 0]
    /\ result = [p \in Procs |-> None]

\* Caller p moves to configuration cf; the stream it draws from moves too.
Apply(p, cf) ==
    /\ pc' = [pc EXCEPT ![p] = cf.pc]
    /\ loc' = [loc EXCEPT ![p] = cf.loc]
    /\ rng' = [rng EXCEPT ![StreamOf(p)] = cf.s]
    /\ result' = [result EXCEPT ![p] = cf.res]

Begin(p, c, cf) == call' = [call EXCEPT ![p] = c] /\ Apply(p, cf)

At(p, where) == pc[p] = where /\ UNCHANGED call

Mine(p) == rng[StreamOf(p)]

GenerateRandomIsing(p, wide) ==
    pc[p] = "idle" /\ \E c \in IsingGenCalls(wide) :
        Begin(p, c, gi_enter(c, Mine(p)))
IsingDrawJ(p) == At(p, "gi_J") /\ Apply(p, gi_drawJ(call[p], loc[p], Mine(p)))
IsingDrawH(p) == At(p, "gi_h") /\ Apply(p, gi_drawH(call[p], loc[p], Mine(p)))

GenerateRandom3Sat(p, wide) ==
    pc[p] = "idle" /\ \E c \in SatGenCalls(wide) :
        Begin(p, c, gs_enter(c, Mine(p)))
SatChoice(p) ==
    At(p, "gs_loop") /\ gs_more(loc[p])
    /\ Apply(p, gs_choice(call[p], loc[p], Mine(p)))
SatSigns(p) == At(p, "gs_signs") /\ Apply(p, gs_signs(call[p], loc[p], Mine(p)))
SatReturn(p) ==
    At(p, "gs_loop") /\ ~gs_more(loc[p])
    /\ Apply(p, gs_return(call[p], loc[p], Mine(p)))

GenerateRandomMaxcut(p, wide) ==
    pc[p] = "idle" /\ \E c \in MaxcutGenCalls(wide) :
        Begin(p, c, gm_enter(c, Mine(p)))
MaxcutEdge(p) ==
    At(p, "gm_loop") /\ gm_more(call[p], loc[p])
    /\ Apply(p, gm_edge(call[p], loc[p], Mine(p)))
MaxcutReturn(p) ==
    At(p, "gm_loop") /\ ~gm_more(call[p], loc[p])
    /\ Apply(p, gm_return(call[p], loc[p], Mine(p)))

GenerateRandomQubo(p, wide) ==
    pc[p] = "idle" /\ \E c \in QuboGenCalls(wide) :
        Begin(p, c, gq_enter(c, Mine(p)))
QuboDrawQ(p) == At(p, "gq_Q") /\ Apply(p, gq_drawQ(call[p], loc[p], Mine(p)))
QuboMask(p) ==
    At(p, "gq_tail") /\ gq_sparse(call[p])
    /\ Apply(p, gq_mask(call[p], loc[p], Mine(p)))
QuboReturn(p) ==
    At(p, "gq_tail") /\ ~gq_sparse(call[p])
    /\ Apply(p, gq_return(call[p], loc[p], Mine(p)))

ValidateIsing(p, wide) ==
    pc[p] = "idle" /\ \E n \in InstanceSizes(wide) : \E c \in IsingCalls(wide, n) :
        Begin(p, c, vi_enter(c, Mine(p)))
IsingSample(p) ==
    At(p, "vi_loop") /\ vi_more(loc[p])
    /\ Apply(p, vi_sample(call[p], loc[p], Mine(p)))
IsingReturn(p) ==
    At(p, "vi_loop") /\ ~vi_more(loc[p])
    /\ Apply(p, vi_return(call[p], loc[p], Mine(p)))

ValidateSat(p, wide) ==
    pc[p] = "idle" /\ \E n \in FormulaSizes(wide) : \E c \in SatCalls(wide, n) :
        Begin(p, c, validate_sat_body(c, Mine(p)))

ValidateMaxcut(p, wide) ==
    pc[p] = "idle" /\ \E n \in GraphSizes(wide) : \E c \in MaxcutCalls(wide, n) :
        Begin(p, c, validate_maxcut_body(c, Mine(p)))

ValidateQubo(p, wide) ==
    pc[p] = "idle" /\ \E n \in InstanceSizes(wide) : \E c \in QuboCalls(wide, n) :
        Begin(p, c, vq_enter(c, Mine(p)))
QuboSample(p) ==
    At(p, "vq_loop") /\ vq_more(loc[p])
    /\ Apply(p, vq_sample(call[p], loc[p], Mine(p)))
QuboValidated(p) ==
    At(p, "vq_loop") /\ ~vq_more(loc[p])
    /\ Apply(p, vq_return(call[p], loc[p], Mine(p)))

\* The caller takes the outcome; the call's frame, its stream included, is
\* released.
Consume(p) ==
    /\ pc[p] = "done"
    /\ call' = [call EXCEPT ![p] = NoCall]
    /\ Apply(p, Cfg("idle", [draws |-> 0], 0, None))

Step(p, wide) ==
    \/ GenerateRandomIsing(p, wide) \/ IsingDrawJ(p) \/ IsingDrawH(p)
    \/ GenerateRandom3Sat(p, wide) \/ SatChoice(p) \/ SatSigns(p) \/ SatReturn(p)
    \/ GenerateRandomMaxcut(p, wide) \/ MaxcutEdge(p) \/ MaxcutReturn(p)
    \/ GenerateRandomQubo(p, wide) \/ QuboDrawQ(p) \/ QuboMask(p) \/ QuboReturn(p)
    \/ ValidateIsing(p, wide) \/ IsingSample(p) \/ IsingReturn(p)
    \/ ValidateSat(p, wide)
    \/ ValidateMaxcut(p, wide)
    \/ ValidateQubo(p, wide) \/ QuboSample(p) \/ QuboValidated(p)
    \/ Consume(p)

\* One caller, calls one after another, over the wide input sets.
Next == Step(1, TRUE)
Spec == Init /\ [][Next]_vars

\* Two callers, steps interleaved in any order.
NextConc == \E p \in Procs : Step(p, FALSE)
SpecConc == Init /\ [][NextConc]_vars


\* ===================================================================== claims
Generators == {"generate_random_ising", "generate_random_3sat",
               "generate_random_maxcut", "generate_random_qubo"}
Validators == {"validate_ising", "validate_sat", "validate_maxcut",
               "validate_qubo"}

Done(p) == pc[p] = "done"
Validated(p) == Done(p) /\ call[p].op \in Validators
Generated(p) == Done(p) /\ call[p].op \in Generators

\* The candidate of a validator call, the domain of its elements, and the
\* length the instance asks for.
Candidate(c) ==
    CASE c.op = "validate_ising" -> c.spins
      [] c.op = "validate_sat" -> c.assignment
      [] c.op = "validate_maxcut" -> c.partition
      [] c.op = "validate_qubo" -> c.solution

CandidateDomain(c) ==
    IF c.op \in {"validate_ising", "validate_maxcut"} THEN {-1, 1} ELSE {0, 1}

ProblemSize(c) ==
    CASE c.op = "validate_ising" -> Len(c.J)
      [] c.op = "validate_sat" -> c.num_vars
      [] c.op = "validate_maxcut" -> Len(c.adjacency)
      [] c.op = "validate_qubo" -> Len(c.Q)

ObjectiveField(c) ==
    CASE c.op = "validate_ising" -> "energy"
      [] c.op = "validate_sat" -> "clauses_satisfied"
      [] c.op = "validate_maxcut" -> "cut_value"
      [] c.op = "validate_qubo" -> "objective"

\* The domain violations of a call's candidate: <<"value", i>> for the i-th
\* element out of the domain, <<"length", 0>> for a wrong length.
Violations(c) ==
    {<<"value", i>> : i \in {k \in 1..Len(Candidate(c)) :
                              Candidate(c)[k] \notin CandidateDomain(c)}}
    \cup (IF Len(Candidate(c)) # ProblemSize(c) THEN {<<"length", 0>>} ELSE {})

Reports(e, v, c) ==
    IF v[1] = "value"
    THEN e.kind = "value" /\ e.at = v[2] - 1 /\ e.got = Candidate(c)[v[2]]
    ELSE e.kind = "length" /\ e.at = Len(Candidate(c)) /\ e.got = ProblemSize(c)

\* A construction parameter outside the range the generator is specified for.
InvalidParameters(c) ==
    CASE c.op = "generate_random_ising" ->
            c.n < 1 \/ c.coupling_std < 0 \/ c.field_std < 0
      [] c.op = "generate_random_3sat" -> c.num_vars < 3 \/ c.alpha <= 0
      [] c.op = "generate_random_maxcut" ->
            c.n < 1 \/ c.edge_density < 0 \/ c.edge_density > 100
      [] c.op = "generate_random_qubo" ->
            c.n < 1 \/ c.density <= 0 \/ c.density > 100

\* C1: a generator called with an invalid construction parameter raises a
\* domain error before any value is drawn from its stream and returns no
\* instance.
C1_InvalidParametersRaiseBeforeDrawing ==
    \A p \in Procs :
        Generated(p) /\ InvalidParameters(call[p]) =>
            result[p].status = "raised" /\ result[p].draws = 0

\* C2: a candidate with k domain violations gets an error list of exactly k
\* entries, one for each violation, no entry twice.
C2_OneErrorPerViolation ==
    \A p \in Procs :
        Validated(p) /\ Violations(call[p]) # {} =>
            /\ result[p].status = "returned"
            /\ "errors" \in DOMAIN result[p].value
            /\ LET errors == result[p].value.errors
               IN  /\ Len(errors) = Cardinality(Violations(call[p]))
                   /\ \A i, j \in 1..Len(errors) : i # j => errors[i] # errors[j]
                   /\ \A v \in Violations(call[p]) :
                        \E k \in 1..Len(errors) : Reports(errors[k], v, call[p])

\* A validate_sat call returned for a candidate that is too long and holds
\* two elements outside {0, 1}: three violations.
C2_Witness ==
    \E p \in Procs :
        /\ Validated(p) /\ call[p].op = "validate_sat"
        /\ Cardinality(Violations(call[p])) = 3
        /\ <<"length", 0>> \in Violations(call[p])
        /\ result[p].status = "returned"
        /\ Len(result[p].value.errors) = 3

\* C3: a candidate with a domain violation never makes the call fail; the
\* result has valid = FALSE and the errors and nothing else (no objective, no
\* baseline); a candidate without violation gets valid = TRUE and the
\* objective.
C3_InvalidCandidateReturnsErrorsOnly ==
    \A p \in Procs :
        Validated(p) =>
            /\ result[p].status = "returned"
            /\ IF Violations(call[p]) # {}
               THEN /\ result[p].value.valid = FALSE
                    /\ DOMAIN result[p].value = {"valid", "errors"}
                    /\ result[p].value.errors # <<>>
               ELSE /\ result[p].value.valid = TRUE
                    /\ ObjectiveField(call[p]) \in DOMAIN result[p].value

\* A validate_ising call returned valid = FALSE for a candidate of the right
\* length with an element outside {-1, +1}, without drawing a baseline.
C3_Witness ==
    \E p \in Procs :
        /\ Validated(p) /\ call[p].op = "validate_ising"
        /\ Len(call[p].spins) = Len(call[p].J)
        /\ Violations(call[p]) # {}
        /\ result[p].status = "returned"
        /\ result[p].value.valid = FALSE
        /\ result[p].draws = 0

\* C4: two generator invocations with identical arguments give identical
\* output, whatever other calls ran before or in between.
C4_GeneratorsDeterministic ==
    \A p, q \in Procs :
        (/\ Generated(p) /\ Generated(q)
         /\ call[p].op = call[q].op /\ call[p] = call[q])
        => result[p] = result[q]

\* Both callers hold the instance of the same generate_random_ising call.
C4_Witness ==
    /\ Generated(1) /\ Generated(2)
    /\ call[1].op = "generate_random_ising" /\ call[2] = call[1]
    /\ result[1].status = "returned" /\ result[1].draws > 0

\* A call run alone, from its first line to its outcome.
EnterOf(c, s) ==
    CASE c.op = "generate_random_ising" -> gi_enter(c, s)
      [] c.op = "generate_random_3sat" -> gs_enter(c, s)
      [] c.op = "generate_random_maxcut" -> gm_enter(c, s)
      [] c.op = "generate_random_qubo" -> gq_enter(c, s)
      [] c.op = "validate_ising" -> vi_enter(c, s)
      [] c.op = "validate_sat" -> validate_sat_body(c, s)
      [] c.op = "validate_maxcut" -> validate_maxcut_body(c, s)
      [] c.op = "validate_qubo" -> vq_enter(c, s)

StepOf(c, cf) ==
    CASE cf.pc = "gi_J" -> gi_drawJ(c, cf.loc, cf.s)
      [] cf.pc = "gi_h" -> gi_drawH(c, cf.loc, cf.s)
      [] cf.pc = "gs_loop" -> IF gs_more(cf.loc) THEN gs_choice(c, cf.loc, cf.s)
                              ELSE gs_return(c, cf.loc, cf.s)
      [] cf.pc = "gs_signs" -> gs_signs(c, cf.loc, cf.s)
      [] cf.pc = "gm_loop" -> IF gm_more(c, cf.loc) THEN gm_edge(c, cf.loc, cf.s)
                              ELSE gm_return(c, cf.loc, cf.s)
      [] cf.pc = "gq_Q" -> gq_drawQ(c, cf.loc, cf.s)
      [] cf.pc = "gq_tail" -> IF gq_sparse(c) THEN gq_mask(c, cf.loc, cf.s)
                              ELSE gq_return(c, cf.loc, cf.s)
      [] cf.pc = "vi_loop" -> IF vi_more(cf.loc) THEN vi_sample(c, cf.loc, cf.s)
                              ELSE vi_return(c, cf.loc, cf.s)
      [] cf.pc = "vq_loop" -> IF vq_more(cf.loc) THEN vq_sample(c, cf.loc, cf.s)
                              ELSE vq_return(c, cf.loc, cf.s)

RECURSIVE RunFrom(_, _)
RunFrom(c, cf) == IF cf.pc = "done" THEN cf.res ELSE RunFrom(c, StepOf(c, cf))

RunAlone(c) == RunFrom(c, EnterOf(c, 0))

\* C5: every call draws from a stream of its own, so that, however its steps
\* interleave with another caller's, it returns what it returns when run
\* alone.
C5_InterleavingInvisible ==
    \A p \in Procs : Done(p) => result[p] = RunAlone(call[p])

\* Caller 1 holds the result of a call that drew from its stream while
\* caller 2 is inside a call of its own and has drawn from its stream too.
C5_Witness ==
    /\ Done(1) /\ result[1].status = "returned" /\ result[1].draws > 0
    /\ pc[2] \notin {"idle", "done"} /\ loc[2].draws > 0

\* C6: a validator leaves the instance and the candidate it was given as
\* they were, and two validator calls with the same arguments give the same
\* result, the random baseline included.
C6_ValidatorsRepeatable ==
    /\ [](\A p, q \in Procs :
            (/\ Validated(p) /\ Validated(q)
             /\ call[p].op = call[q].op /\ call[p] = call[q])
            => result[p] = result[q])
    /\ [][\A p \in Procs :
            call[p].op \in Validators /\ pc'[p] # "idle" => call'[p] = call[p]]_vars

\* Both callers hold the result, baseline included, of the same
\* validate_ising call.
C6_Witness ==
    /\ Validated(1) /\ Validated(2)
    /\ call[1].op = "validate_ising" /\ call[2] = call[1]
    /\ result[1].status = "returned" /\ result[1].value.valid
    /\ "random_baseline" \in DOMAIN result[2].value
    /\ result[1].draws > 0

\* The clauses (by position) with a literal that is true under assignment a.
SatisfiedClauses(clauses, a) ==
    {idx \in 1..Len(clauses) :
        \E k \in 1..Len(clauses[idx]) :
            \/ clauses[idx][k] > 0 /\ a[clauses[idx][k]] = 1
            \/ clauses[idx][k] < 0 /\ a[-clauses[idx][k]] = 0}

\* C7: for a domain-valid assignment validate_sat reports the number of
\* clauses with a true literal, the number of clauses, and satisfies_all
\* exactly when every clause has a true literal.
C7_SatCountsSatisfiedClauses ==
    \A p \in Procs :
        Validated(p) /\ call[p].op = "validate_sat" /\ Violations(call[p]) = {} =>
            /\ result[p].status = "returned"
            /\ result[p].value.valid
            /\ LET c == call[p]
                   sat == SatisfiedClauses(c.clauses, c.assignment)
               IN  /\ result[p].value.clauses_satisfied = Cardinality(sat)
                   /\ result[p].value.clauses_total = Len(c.clauses)
                   /\ result[p].value.satisfies_all
                        <=> (sat = 1..Len(c.clauses))

\* clauses = [[1, 2, -3]], assignment = [0, 0, 0]: satisfied through -3 only.
C7_Witness ==
    \E p \in Procs :
        /\ Validated(p) /\ call[p].op = "validate_sat"
        /\ call[p].clauses = <<(<<1, 2, -3>>)>>
        /\ call[p].assignment = <<0, 0, 0>>
        /\ result[p].status = "returned"
        /\ result[p].value.clauses_satisfied = 1
        /\ result[p].value.satisfies_all

\* The pairs i < j of a graph joined by an edge, and those among them that a
\* partition cuts.
EdgePairs(adj) ==
    {pr \in Positions(Len(adj)) : pr[1] < pr[2] /\ adj[pr[1]][pr[2]] # 0}
CutPairs(adj, partition) ==
    {pr \in EdgePairs(adj) : partition[pr[1]] # partition[pr[2]]}

RECURSIVE WeightOf(_, _)
WeightOf(adj, prs) ==
    IF prs = {} THEN 0
    ELSE LET pr == CHOOSE x \in prs : TRUE
         IN  adj[pr[1]][pr[2]] + WeightOf(adj, prs \ {pr})

\* C8: for a domain-valid partition validate_maxcut counts every pair i < j
\* with a nonzero entry once in total_edges, cut_value is the sum of the
\* weights of the pairs the partition cuts (weights are in halves, so twice
\* cut_value is their sum), and cut_ratio is cut_value / total_edges as a
\* percentage.
C8_CutValueIsWeightOfCutEdges ==
    \A p \in Procs :
        Validated(p) /\ call[p].op = "validate_maxcut" /\ Violations(call[p]) = {} =>
            /\ result[p].status = "returned"
            /\ LET c == call[p]
                   v == result[p].value
               IN  /\ v.total_edges = Cardinality(EdgePairs(c.adjacency))
                   /\ 2 * v.cut_value
                        = WeightOf(c.adjacency, CutPairs(c.adjacency, c.partition))
                   /\ v.total_edges > 0 =>
                        v.cut_ratio = RoundHalfEven(10000 * v.cut_value, v.total_edges)

\* C9: for a domain-valid x validate_qubo reports the sum over all i, j of
\* x_i * Q_ij * x_j, entries below the diagonal included, and the number of
\* ones in x.
C9_QuboObjectiveOverFullMatrix ==
    \A p \in Procs :
        Validated(p) /\ call[p].op = "validate_qubo" /\ Violations(call[p]) = {} =>
            /\ result[p].status = "returned"
            /\ LET Q == call[p].Q
                   x == call[p].solution
                   n == Len(Q)
               IN  /\ result[p].value.objective =
                        SumSeq([k \in 1..(n * n) |->
                                  x[((k - 1) \div n) + 1]
                                  * Q[((k - 1) \div n) + 1][((k - 1) % n) + 1]
                                  * x[((k - 1) % n) + 1]])
                   /\ result[p].value.num_ones
                        = Cardinality({i \in 1..Len(x) : x[i] = 1})

\* Q = [[1, 0], [2, 0]] (an entry below the diagonal), x = [1, 1]: 1 + 2.
C9_Witness ==
    \E p \in Procs :
        /\ Validated(p) /\ call[p].op = "validate_qubo"
        /\ call[p].Q = <<(<<1, 0>>), (<<2, 0>>)>>
        /\ call[p].solution = <<1, 1>>
        /\ result[p].status = "returned"
        /\ result[p].value.objective = 3
        /\ result[p].value.num_ones = 2

Instance(p, op) ==
    Generated(p) /\ call[p].op = op /\ result[p].status = "returned"

Magnitudes(clause) == [k \in 1..Len(clause) |-> Abs(clause[k])]

\* floor(num / den) for den > 0.
Floor(num, den) == num \div den

\* C11: every clause of an instance returned by generate_random_3sat has three
\* literals with pairwise distinct magnitudes in 1..num_vars, and the number
\* of clauses, as listed and as recorded in num_clauses, is
\* floor(num_vars * alpha) (alpha is in hundredths).
C11_ClausesWellFormedAndCounted ==
    \A p \in Procs :
        Instance(p, "generate_random_3sat") =>
            LET c == call[p]
                v == result[p].value
            IN  /\ \A k \in 1..Len(v.clauses) :
                       /\ Len(v.clauses[k]) = 3
                       /\ \A a \in 1..3 :
                              Magnitudes(v.clauses[k])[a] \in 1..c.num_vars
                       /\ \A a, b \in 1..3 :
                              a # b => Magnitudes(v.clauses[k])[a]
                                         # Magnitudes(v.clauses[k])[b]
                /\ Len(v.clauses) = Floor(c.num_vars * c.alpha, 100)
                /\ v.num_clauses = Floor(c.num_vars * c.alpha, 100)

Symmetric(M) == \A i, j \in 1..Len(M) : M[i][j] = M[j][i]
ZeroDiagonal(M) == \A i \in 1..Len(M) : M[i][i] = 0

\* C12: J of every instance returned by generate_random_ising is symmetric
\* with a zero diagonal; adjacency of every instance returned by
\* generate_random_maxcut is symmetric with a zero diagonal and entries 0 or
\* 1, and num_edges is the number of pairs i < j that were included.
C12_SymmetricWithZeroDiagonal ==
    \A p \in Procs :
        /\ Instance(p, "generate_random_ising") =>
               LET J == result[p].value.J
               IN  /\ Len(J) = call[p].n
                   /\ \A i \in 1..Len(J) : Len(J[i]) = Len(J)
                   /\ Symmetric(J) /\ ZeroDiagonal(J)
        /\ Instance(p, "generate_random_maxcut") =>
               LET adj == result[p].value.adjacency
               IN  /\ Len(adj) = call[p].n
                   /\ \A i \in 1..Len(adj) : Len(adj[i]) = Len(adj)
                   /\ Symmetric(adj) /\ ZeroDiagonal(adj)
                   /\ \A i, j \in 1..Len(adj) : adj[i][j] \in {0, 1}
                   /\ result[p].value.num_edges = Cardinality(EdgePairs(adj))

\* A graph on three nodes with a pair that was included and one that was not.
C12_Witness ==
    \E p \in Procs :
        /\ Instance(p, "generate_random_maxcut")
        /\ call[p].n = 3
        /\ result[p].value.num_edges \in {1, 2}
        /\ \E i, j \in 1..3 : i # j /\ result[p].value.adjacency[i][j] = 1

\* C13: Q of every instance returned by generate_random_qubo, whatever n,
\* seed and density and whether or not the sparsity mask was applied, is
\* n x n with Q_ij = 0 for every i > j.
C13_QuboUpperTriangular ==
    \A p \in Procs :
        Instance(p, "generate_random_qubo") =>
            LET Q == result[p].value.Q
            IN  /\ Len(Q) = call[p].n
                /\ \A i \in 1..Len(Q) : Len(Q[i]) = Len(Q)
                /\ \A i, j \in 1..Len(Q) : i > j => Q[i][j] = 0

\* A masked instance (density 0.5) on two variables that kept an entry.
C13_Witness ==
    \E p \in Procs :
        /\ Instance(p, "generate_random_qubo")
        /\ call[p].n = 2 /\ call[p].density = 50
        /\ result[p].value.metadata.num_nonzero > 0

\* What validate_sat returns for the clauses and num_vars of instance v and
\* the given assignment.
SatReport(v, assignment) ==
    validate_sat_body([op |-> "validate_sat", clauses |-> v.clauses,
                       num_vars |-> v.num_vars, assignment |-> assignment],
                      default_rng(0)).res

\* C14: for every instance that generate_random_3sat produces from valid
\* parameters (num_vars >= 3, alpha > 0), metadata.regime is the
\* classification of a = num_clauses / num_vars, and it is the
\* phase_transition_regime that validate_sat reports for the instance's
\* clauses and num_vars with any assignment of zeros and ones.
C14_RegimeAgreesWithValidation ==
    \A p \in Procs :
        Instance(p, "generate_random_3sat") /\ ~InvalidParameters(call[p]) =>
            LET v == result[p].value
            IN  /\ v.metadata.regime = Regime(v.num_clauses, v.num_vars)
                /\ \A assignment \in [1..v.num_vars -> {0, 1}] :
                       /\ SatReport(v, assignment).status = "returned"
                       /\ SatReport(v, assignment).value.phase_transition_regime
                            = v.metadata.regime

====
